---------------------------- MODULE Spec2Model ----------------------------
(***************************************************************************)
(* Model of the dress-site web shop (src/tempCodeRunnerFile.py): the three *)
(* tables User, Item and Cart, the cookie session of each browser, and one *)
(* action per request handler.  Text inputs are sequences of one-character *)
(* strings, so that strip(), lower(), int() and float() are computed.      *)
(***************************************************************************)
EXTENDS Integers, Sequences, FiniteSets, TLC

\* ------------------------------------------------------------------ bounds
MaxUserId == 3      \* largest id of the user table (2 users are seeded)
MaxItemId == 4      \* largest id of the item table (3 items are seeded)
MaxCartId == 2      \* largest id of the cart table
MaxQty == 2         \* largest quantity an add-to-cart increment reaches
MaxInFlight == 2    \* add-to-cart requests between their read and their commit

\* the browsers (cookie sessions) sending requests.  A request is decided by its
\* own cookie and the tables only and is handled as one step, so one browser
\* that logs in and out as every user reaches every state of the tables.
Clients == {"b1"}

\* ------------------------------------------------------------------ text
sAdmin == <<"a", "d", "m", "i", "n">>
sAdminCap == <<"A", "d", "m", "i", "n">>
sUser == <<"u", "s", "e", "r">>
sAlice == <<"a", "l", "i", "c", "e">>
sAlicePadded == <<" ", "a", "l", "i", "c", "e", " ">>
sBlank == <<" ">>
sEmpty == <<>>
sAdmin123 == <<"a", "d", "m", "i", "n", "1", "2", "3">>
sUser123 == <<"u", "s", "e", "r", "1", "2", "3">>
sRedSummerDress == <<"R", "e", "d", " ", "S", "u", "m", "m", "e", "r", " ", "D", "r", "e", "s", "s">>
sClassicBlackGown == <<"C", "l", "a", "s", "s", "i", "c", " ", "B", "l", "a", "c", "k", " ", "G", "o", "w", "n">>
sFloralCasualDress == <<"F", "l", "o", "r", "a", "l", " ", "C", "a", "s", "u", "a", "l", " ", "D", "r", "e", "s", "s">>
sHat == <<"H", "a", "t">>

UpperChars == <<"A", "B", "C", "D", "E", "F", "G", "H", "I", "J", "K", "L", "M", "N", "O", "P", "Q", "R", "S", "T", "U", "V", "W", "X", "Y", "Z">>
LowerChars == <<"a", "b", "c", "d", "e", "f", "g", "h", "i", "j", "k", "l", "m", "n", "o", "p", "q", "r", "s", "t", "u", "v", "w", "x", "y", "z">>
DigitChars == <<"0", "1", "2", "3", "4", "5", "6", "7", "8", "9">>

\* the index of character ch in the table tbl, 0 when it is not there
IndexIn(tbl, ch) ==
    IF \E k \in 1..Len(tbl) : tbl[k] = ch
    THEN CHOOSE k \in 1..Len(tbl) : tbl[k] = ch
    ELSE 0

\* str.lower() of one character
LowerChar(ch) ==
    IF IndexIn(UpperChars, ch) # 0 THEN LowerChars[IndexIn(UpperChars, ch)] ELSE ch

\* str.lower()
Lower(s) == [k \in 1..Len(s) |-> LowerChar(s[k])]

RECURSIVE LStrip(_)
LStrip(s) == IF s # <<>> /\ Head(s) = " " THEN LStrip(Tail(s)) ELSE s

RECURSIVE RStrip(_)
RStrip(s) ==
    IF s # <<>> /\ s[Len(s)] = " " THEN RStrip(SubSeq(s, 1, Len(s) - 1)) ELSE s

\* str.strip()
Strip(s) == RStrip(LStrip(s))

\* a form field of the request: present with a value, or not sent
Field(v) == [present |-> TRUE, v |-> v]
NoField == [present |-> FALSE, v |-> <<>>]

\* request.form.get(name, default)
FormGet(f, default) == IF f.present THEN f.v ELSE default

RECURSIVE DigitsValue(_)
DigitsValue(s) ==
    IF s = <<>> THEN 0
    ELSE 10 * DigitsValue(SubSeq(s, 1, Len(s) - 1)) + (IndexIn(DigitChars, s[Len(s)]) - 1)

AllDigits(s) == s # <<>> /\ \A k \in 1..Len(s) : IndexIn(DigitChars, s[k]) # 0

\* the number read from an optionally signed run of digits with blanks around
\* it; ok is FALSE where Python raises ValueError
ParseNumber(s) ==
    LET t == Strip(s)
        signed == t # <<>> /\ Head(t) \in {"+", "-"}
        body == IF signed THEN Tail(t) ELSE t
    IN  IF AllDigits(body)
        THEN [ok |-> TRUE,
              val |-> IF signed /\ Head(t) = "-" THEN 0 - DigitsValue(body) ELSE DigitsValue(body)]
        ELSE [ok |-> FALSE, val |-> 0]

\* int(request.form.get('quantity', '1') or 1)
ParseQuantity(f) ==
    LET raw == FormGet(f, <<"1">>)
    IN  IF raw = <<>> THEN [ok |-> TRUE, val |-> 1] ELSE ParseNumber(raw)

\* float(request.form.get('price', '0') or 0), for prices in whole units
ParsePrice(f) ==
    LET raw == FormGet(f, <<"0">>)
    IN  IF raw = <<>> THEN [ok |-> TRUE, val |-> 0] ELSE ParseNumber(raw)

\* generate_password_hash(p) and check_password_hash(h, p)
PasswordHash(p) == [alg |-> "pbkdf2", of |-> p]
CheckPasswordHash(h, p) == h = PasswordHash(p)

\* ------------------------------------------------------------------ state
VARIABLES
    users,      \* table user: records [id, username, password_hash, is_admin]
    items,      \* table item: records [id, name, price]
    cart,       \* table cart: records [id, user_id, item_id, quantity]
    session,    \* session[c]: session['user_id'] of browser c, 0 when not set
    flow,       \* flow[c]: the checkout step browser c performed last
    pending,    \* add-to-cart requests that have read the cart and not yet committed
    last        \* the request handled last and its response

vars == <<users, items, cart, session, flow, pending, last>>

SetMax(S) == IF S = {} THEN 0 ELSE CHOOSE m \in S : \A x \in S : x <= m

\* the id SQLite gives the next row of an INTEGER PRIMARY KEY table
NextId(table) == SetMax({r.id : r \in table}) + 1

\* User.query.get(uid), Item.query.get(id), Cart.query.get(id): the set holding
\* the row, or the empty set
GetRow(table, id) == {r \in table : r.id = id}

\* current_user(): the set holding the session's user, or the empty set
current_user(c) ==
    IF session[c] = 0 THEN {} ELSE GetRow(users, session[c])

\* the condition under which login_required runs the view
LoggedInBuggy(c) == TRUE
LoggedIn(c) == current_user(c) # {}

\* the condition under which admin_required runs the view
AdminAllowedBuggy(c) == LoggedIn(c)
AdminAllowed(c) == \E u \in current_user(c) : u.is_admin

\* the response of a handler to the request op of browser c; body is what the
\* handler hands to the template or to the mailer
ResponseWith(c, op, resp, flash, body) ==
    [c |-> c, op |-> op, resp |-> resp, flash |-> flash, body |-> body]

NoBody == [kind |-> "none"]

Response(c, op, resp, flash) == ResponseWith(c, op, resp, flash, NoBody)

\* seed_data() on the empty database
SeedUsers ==
    { [id |-> 1, username |-> sAdmin, password_hash |-> PasswordHash(sAdmin123), is_admin |-> TRUE],
      [id |-> 2, username |-> sUser, password_hash |-> PasswordHash(sUser123), is_admin |-> FALSE] }

SeedItems ==
    { [id |-> 1, name |-> sRedSummerDress, price |-> 1299],
      [id |-> 2, name |-> sClassicBlackGown, price |-> 2499],
      [id |-> 3, name |-> sFloralCasualDress, price |-> 1599] }

Init ==
    /\ users = SeedUsers
    /\ items = SeedItems
    /\ cart = {}
    /\ session = [c \in Clients |-> 0]
    /\ flow = [c \in Clients |-> "Browsing"]
    /\ pending = {}
    /\ last = Response("none", "init", "none", "none")

\* ------------------------------------------------------------------ auth
\* is_admin of a new user
SignupIsAdminBuggy(uname) == uname = sAdmin
SignupIsAdmin(uname) == Lower(uname) = sAdmin

\* User.query.filter_by(username=uname).first() finds a row
UsernameTakenBuggy(uname) == FALSE
UsernameTaken(uname) == \E u \in users : u.username = uname

\* POST /signup
Signup(c, rawName, rawPwd) ==
    LET uname == Strip(rawName)
        pwd == Strip(rawPwd)
    IN  /\ UNCHANGED <<items, cart, session, flow, pending>>
        /\ IF uname = <<>> \/ pwd = <<>>
           THEN /\ users' = users
                /\ last' = Response(c, "signup", "redirect:signup", "Username and password are required.")
           ELSE IF UsernameTaken(uname)
           THEN /\ users' = users
                /\ last' = Response(c, "signup", "redirect:signup", "Username already exists.")
           ELSE /\ users' = users \cup
                      { [id |-> NextId(users), username |-> uname,
                         password_hash |-> PasswordHash(pwd), is_admin |-> SignupIsAdmin(uname)] }
                /\ last' = Response(c, "signup", "redirect:login", "Signup successful. Please login.")

\* POST /login
Login(c, rawName, rawPwd) ==
    LET uname == Strip(rawName)
        pwd == Strip(rawPwd)
        found == {u \in users : u.username = uname /\ CheckPasswordHash(u.password_hash, pwd)}
    IN  /\ UNCHANGED <<users, items, cart, pending>>
        /\ flow' = [flow EXCEPT ![c] = "Browsing"]
        /\ IF found # {}
           THEN \E u \in found :
                /\ session' = [session EXCEPT ![c] = u.id]
                /\ last' = Response(c, "login", "redirect:items", "Logged in!")
           ELSE /\ session' = session
                /\ last' = Response(c, "login", "render:login", "Invalid credentials.")

\* GET /logout
Logout(c) ==
    /\ UNCHANGED <<users, items, cart, pending>>
    /\ session' = [session EXCEPT ![c] = 0]
    /\ flow' = [flow EXCEPT ![c] = "Browsing"]
    /\ last' = Response(c, "logout", "redirect:login", "Logged out.")

\* ------------------------------------------------------------------ admin
\* the response of login_required and of admin_required when they refuse
LoginRefused(c, op) == Response(c, op, "redirect:login", "Please login first.")
AdminRefused(c, op) == Response(c, op, "redirect:items", "Admin access required.")

\* POST /admin
AdminCreate(c, nameF, priceF) ==
    LET name == Strip(FormGet(nameF, <<>>))
        price == ParsePrice(priceF)
    IN  /\ UNCHANGED <<users, cart, session, flow, pending>>
        /\ IF ~AdminAllowed(c)
           THEN /\ items' = items
                /\ last' = AdminRefused(c, "admin")
           ELSE IF ~price.ok
           THEN /\ items' = items
                /\ last' = Response(c, "admin", "500", "ValueError")
           ELSE IF name = <<>>
           THEN /\ items' = items
                /\ last' = Response(c, "admin", "redirect:admin", "Item name is required.")
           ELSE /\ items' = items \cup {[id |-> NextId(items), name |-> name, price |-> price.val]}
                /\ last' = Response(c, "admin", "redirect:admin", "Item added.")

\* the cart rows left when item item_id is deleted
CascadeBuggy(item_id) == cart
Cascade(item_id) == {r \in cart : r.item_id # item_id}

\* POST /admin/delete/<item_id>
AdminDeleteItem(c, item_id) ==
    /\ UNCHANGED <<users, session, flow, pending>>
    /\ IF ~AdminAllowed(c)
       THEN /\ UNCHANGED <<items, cart>>
            /\ last' = AdminRefused(c, "admin_delete_item")
       ELSE IF GetRow(items, item_id) = {}
       THEN /\ UNCHANGED <<items, cart>>
            /\ last' = Response(c, "admin_delete_item", "404", "none")
       ELSE /\ items' = items \ GetRow(items, item_id)
            /\ cart' = Cascade(item_id)
            /\ last' = Response(c, "admin_delete_item", "redirect:admin", "Item deleted.")

\* ------------------------------------------------------------------ cart
\* max(a, b)
Max2Buggy(a, b) == a
Max2(a, b) == IF a >= b THEN a ELSE b

\* the lines of cart(): one per cart row of the user whose item exists
CartLines(uid) ==
    { [cart_id |-> e.id, item_id |-> e.item_id, quantity |-> e.quantity,
       line_total |-> i.price * Max2(1, e.quantity)] :
         <<e, i>> \in {p \in cart \X items : p[1].user_id = uid /\ p[2].id = p[1].item_id} }

RECURSIVE SumLines(_)
SumLines(L) ==
    IF L = {} THEN 0
    ELSE LET l == CHOOSE x \in L : TRUE IN l.line_total + SumLines(L \ {l})

\* total of cart()
CartTotal(uid) == SumLines(CartLines(uid))

\* GET /cart
ViewCart(c) ==
    /\ UNCHANGED <<users, items, cart, session, flow, pending>>
    /\ IF ~LoggedIn(c)
       THEN last' = LoginRefused(c, "cart")
       ELSE last' = ResponseWith(c, "cart", "render:cart", "none",
                                 [kind |-> "cart", cart_items |-> CartLines(session[c]),
                                  total |-> CartTotal(session[c])])

\* the rows Cart.query.filter_by(user_id, item_id) matches
ExistingRowsBuggy(uid, item_id) == {}
ExistingRows(uid, item_id) == {r \in cart : r.user_id = uid /\ r.item_id = item_id}

\* the quantity of the row after one more add
IncrementedBuggy(r) == r
Incremented(r) == [r EXCEPT !.quantity = @ + 1]

\* an add-to-cart that does not look the item up
AddToCartUnchecked(c, item_id) ==
    /\ UNCHANGED <<users, items, session, flow, pending>>
    /\ IF ~LoggedIn(c)
       THEN /\ cart' = cart
            /\ last' = LoginRefused(c, "add_to_cart")
       ELSE /\ IF ExistingRows(session[c], item_id) # {}
               THEN \E row \in ExistingRows(session[c], item_id) :
                       cart' = (cart \ {row}) \cup {Incremented(row)}
               ELSE cart' = cart \cup
                       {[id |-> NextId(cart), user_id |-> session[c],
                         item_id |-> item_id, quantity |-> 1]}
            /\ last' = Response(c, "add_to_cart", "redirect:items", "Added to cart.")

\* POST /add-to-cart/<item_id>, handled as one step
AddToCart(c, item_id) ==
    /\ UNCHANGED <<users, items, session, flow, pending>>
    /\ IF ~LoggedIn(c)
       THEN /\ cart' = cart
            /\ last' = LoginRefused(c, "add_to_cart")
       ELSE IF GetRow(items, item_id) = {}
       THEN /\ cart' = cart
            /\ last' = Response(c, "add_to_cart", "404", "none")
       ELSE /\ IF ExistingRows(session[c], item_id) # {}
               THEN \E row \in ExistingRows(session[c], item_id) :
                       cart' = (cart \ {row}) \cup {Incremented(row)}
               ELSE cart' = cart \cup
                       {[id |-> NextId(cart), user_id |-> session[c],
                         item_id |-> item_id, quantity |-> 1]}
            /\ last' = Response(c, "add_to_cart", "redirect:items", "Added to cart.")

\* POST /add-to-cart/<item_id> up to the query of line 219: the request has
\* read the item and the row of (user, item) and holds what it saw
AddToCartRead(c, item_id) ==
    /\ UNCHANGED <<users, items, cart, session, flow>>
    /\ IF ~LoggedIn(c)
       THEN /\ pending' = pending
            /\ last' = LoginRefused(c, "add_to_cart")
       ELSE IF GetRow(items, item_id) = {}
       THEN /\ pending' = pending
            /\ last' = Response(c, "add_to_cart", "404", "none")
       ELSE /\ last' = last
            /\ \E k \in 1..MaxInFlight :
                  /\ \A p \in pending : p.slot # k
                  /\ IF ExistingRows(session[c], item_id) # {}
                     THEN \E row \in ExistingRows(session[c], item_id) :
                             pending' = pending \cup
                                {[slot |-> k, c |-> c, user_id |-> session[c],
                                  item_id |-> item_id, seen |-> {row}]}
                     ELSE pending' = pending \cup
                             {[slot |-> k, c |-> c, user_id |-> session[c],
                               item_id |-> item_id, seen |-> {}]}

\* a commit that looks the row up again and inserts only when there is none
AddToCartCommitUpsert(p) ==
    /\ p \in pending
    /\ UNCHANGED <<users, items, session, flow>>
    /\ pending' = pending \ {p}
    /\ IF ExistingRows(p.user_id, p.item_id) # {}
       THEN \E row \in ExistingRows(p.user_id, p.item_id) :
               cart' = (cart \ {row}) \cup {Incremented(row)}
       ELSE cart' = cart \cup
               {[id |-> NextId(cart), user_id |-> p.user_id,
                 item_id |-> p.item_id, quantity |-> 1]}
    /\ last' = Response(p.c, "add_to_cart", "redirect:items", "Added to cart.")

\* the rest of the request p: the insert or the update of the row it saw, and
\* the commit; the update of a row that is gone raises StaleDataError
AddToCartCommit(p) ==
    /\ p \in pending
    /\ UNCHANGED <<users, items, session, flow>>
    /\ pending' = pending \ {p}
    /\ IF p.seen = {}
       THEN /\ cart' = cart \cup
                  {[id |-> NextId(cart), user_id |-> p.user_id,
                    item_id |-> p.item_id, quantity |-> 1]}
            /\ last' = Response(p.c, "add_to_cart", "redirect:items", "Added to cart.")
       ELSE \E row \in p.seen :
               IF GetRow(cart, row.id) = {}
               THEN /\ cart' = cart
                    /\ last' = Response(p.c, "add_to_cart", "500", "StaleDataError")
               ELSE /\ cart' = {r \in cart : r.id # row.id} \cup {Incremented(row)}
                    /\ last' = Response(p.c, "add_to_cart", "redirect:items", "Added to cart.")

\* whether update_cart deletes the row for quantity q
DeletesRowBuggy(q) == q < 0
DeletesRow(q) == q <= 0

\* POST /cart/update/<cart_id>
UpdateCart(c, cart_id, qF) ==
    LET q == ParseQuantity(qF)
    IN  /\ UNCHANGED <<users, items, session, flow, pending>>
        /\ IF ~LoggedIn(c)
           THEN /\ cart' = cart
                /\ last' = LoginRefused(c, "update_cart")
           ELSE IF ~q.ok
           THEN /\ cart' = cart
                /\ last' = Response(c, "update_cart", "500", "ValueError")
           ELSE IF GetRow(cart, cart_id) = {}
           THEN /\ cart' = cart
                /\ last' = Response(c, "update_cart", "404", "none")
           ELSE \E row \in GetRow(cart, cart_id) :
                /\ cart' = IF DeletesRow(q.val)
                           THEN cart \ {row}
                           ELSE (cart \ {row}) \cup {[row EXCEPT !.quantity = q.val]}
                /\ last' = Response(c, "update_cart", "redirect:cart", "Cart updated.")

\* ------------------------------------------------------------------ checkout
\* POST /payment
Payment(c) ==
    /\ UNCHANGED <<users, items, cart, session, pending>>
    /\ IF ~LoggedIn(c)
       THEN /\ flow' = flow
            /\ last' = LoginRefused(c, "payment")
       ELSE /\ flow' = [flow EXCEPT ![c] = "PaymentAcknowledged"]
            /\ last' = Response(c, "payment", "redirect:send_screenshot",
                                "Payment marked as completed. Please upload the screenshot.")

FilenameChars == LowerChars \o UpperChars \o DigitChars \o <<".", "_", "-">>

\* the characters of s that secure_filename keeps, blanks and path separators
\* turned into "_"
RECURSIVE KeepFilenameChars(_)
KeepFilenameChars(s) ==
    IF s = <<>> THEN <<>>
    ELSE LET ch == IF Head(s) \in {" ", "/"} THEN "_" ELSE Head(s)
         IN  IF IndexIn(FilenameChars, ch) # 0
             THEN <<ch>> \o KeepFilenameChars(Tail(s))
             ELSE KeepFilenameChars(Tail(s))

RECURSIVE StripDots(_)
StripDots(s) ==
    IF s # <<>> /\ Head(s) \in {".", "_"} THEN StripDots(Tail(s))
    ELSE IF s # <<>> /\ s[Len(s)] \in {".", "_"} THEN StripDots(SubSeq(s, 1, Len(s) - 1))
    ELSE s

\* secure_filename(f.filename)
SecureFilename(s) == StripDots(KeepFilenameChars(Strip(s)))

sPng == <<"p", "n", "g">>
sJpg == <<"j", "p", "g">>
sJpeg == <<"j", "p", "e", "g">>
sImageSlash == <<"i", "m", "a", "g", "e", "/">>

\* '.' in filename
HasDot(s) == \E k \in 1..Len(s) : s[k] = "."

\* s.rsplit('.', 1)[-1] of a name that has a dot
AfterLastDot(s) ==
    LET k == CHOOSE j \in 1..Len(s) : s[j] = "." /\ \A m \in (j + 1)..Len(s) : s[m] # "."
    IN  SubSeq(s, k + 1, Len(s))

\* ext of send_screenshot
Ext(filename) == IF HasDot(filename) THEN AfterLastDot(Lower(filename)) ELSE sPng

\* mime of send_screenshot
Mime(filename) ==
    sImageSlash \o (IF Ext(filename) \in {sJpg, sJpeg} THEN sJpeg ELSE Ext(filename))

\* where send_screenshot sends the browser once the relay was attempted
AfterRelayBuggy(relayOk) == IF relayOk THEN "redirect:success" ELSE "redirect:send_screenshot"
AfterRelay(relayOk) == "redirect:success"

\* POST /send-screenshot; relayOk is the outcome of mail.send
SendScreenshot(c, file, relayOk) ==
    /\ UNCHANGED <<users, items, cart, session, pending>>
    /\ IF ~LoggedIn(c)
       THEN /\ flow' = flow
            /\ last' = LoginRefused(c, "send_screenshot")
       ELSE IF ~file.present \/ file.v = <<>>
       THEN /\ flow' = flow
            /\ last' = Response(c, "send_screenshot", "redirect:send_screenshot",
                                "Please select an image file.")
       ELSE IF SecureFilename(file.v) = <<>>
       THEN /\ flow' = flow
            /\ last' = Response(c, "send_screenshot", "500", "IsADirectoryError")
       ELSE /\ flow' = [flow EXCEPT ![c] = "ScreenshotUploaded"]
            /\ last' = ResponseWith(c, "send_screenshot", AfterRelay(relayOk),
                                    IF relayOk THEN "Screenshot sent to admin email!"
                                    ELSE "Email send simulated (or failed)",
                                    [kind |-> "mail", filename |-> SecureFilename(file.v),
                                     mime |-> Mime(SecureFilename(file.v))])

\* the cart rows left when the cart of user uid is cleared
ClearCart(uid) == {r \in cart : r.user_id # uid}

\* GET /success
Success(c) ==
    /\ UNCHANGED <<users, items, session, pending>>
    /\ IF ~LoggedIn(c)
       THEN /\ UNCHANGED <<cart, flow>>
            /\ last' = LoginRefused(c, "success")
       ELSE /\ cart' = ClearCart(session[c])
            /\ flow' = [flow EXCEPT ![c] = "Completed"]
            /\ last' = Response(c, "success", "render:success", "none")

\* ------------------------------------------------------------------ inputs
NameInputs == {sAdmin, sAdminCap, sAlice, sAlicePadded, sBlank, sEmpty}
PwdInputs == {sEmpty, sAdmin123, sUser123, <<" ">> \o sUser123}
ShopNameInputs == {sAlicePadded, sUser, sEmpty}
ShopLogins == {<<sAdmin, sAdmin123>>, <<sUser, sUser123>>, <<sAlice, sUser123>>, <<sUser, sAdmin123>>}
ItemNameInputs == {Field(sHat), Field(sBlank), NoField}
PriceInputs == {Field(<<"5">>), Field(<<"a", "b", "c">>)}
QtyInputs == {Field(<<"2">>), Field(<<"0">>), Field(<<"-", "1">>), Field(<<"x">>), Field(sEmpty), NoField}
FileInputs == {NoField, Field(sEmpty), Field(<<"a", ".", "p", "n", "g">>), Field(<<".", ".">>)}
ItemIds == {1, 4, 5}
CartIds == 1..(MaxCartId + 1)

\* ------------------------------------------------------------------ the shop
\* the tables stay within the bounds of the model
Bounded ==
    /\ \A u \in users : u.id <= MaxUserId
    /\ \A i \in items : i.id <= MaxItemId
    /\ \A r \in cart : r.id <= MaxCartId /\ r.quantity <= MaxQty

Next ==
    \/ \E c \in Clients, n \in ShopNameInputs : Signup(c, n, sUser123) /\ Bounded'
    \/ \E c \in Clients, l \in ShopLogins : Login(c, l[1], l[2])
    \/ \E c \in Clients : Logout(c)
    \/ \E c \in Clients, n \in ItemNameInputs, p \in PriceInputs : AdminCreate(c, n, p) /\ Bounded'
    \/ \E c \in Clients, i \in ItemIds : AdminDeleteItem(c, i)
    \/ \E c \in Clients : ViewCart(c)
    \/ \E c \in Clients, i \in ItemIds : AddToCart(c, i) /\ Bounded'
    \/ \E c \in Clients, k \in CartIds, q \in QtyInputs : UpdateCart(c, k, q) /\ Bounded'
    \/ \E c \in Clients : Payment(c)
    \/ \E c \in Clients, f \in FileInputs, ok \in BOOLEAN : SendScreenshot(c, f, ok)
    \/ \E c \in Clients : Success(c)

Spec == Init /\ [][Next]_vars

\* ------------------------------------------------------------------ accounts
NextAuth ==
    \/ \E c \in Clients, n \in NameInputs, p \in PwdInputs : Signup(c, n, p) /\ Bounded'
    \/ \E c \in Clients, n \in NameInputs \cup {sUser}, p \in PwdInputs : Login(c, n, p)
    \/ \E c \in Clients : Logout(c)
    \/ \E c \in Clients : ViewCart(c)
    \/ \E c \in Clients : AdminDeleteItem(c, 5)

SpecAuth == Init /\ [][NextAuth]_vars

\* ------------------------------------------------------------------ overlapping adds
\* add-to-cart requests whose read and commit are separate steps, next to the
\* requests that remove cart rows or items in one step and the cart page
NextRace ==
    \/ \E c \in Clients, l \in ShopLogins : Login(c, l[1], l[2])
    \/ \E c \in Clients : Logout(c)
    \/ \E c \in Clients, i \in ItemIds : AddToCartRead(c, i)
    \/ \E p \in pending : AddToCartCommit(p) /\ Bounded'
    \/ \E c \in Clients, k \in CartIds : UpdateCart(c, k, Field(<<"0">>))
    \/ \E c \in Clients : AdminDeleteItem(c, 1)
    \/ \E c \in Clients : ViewCart(c)
    \/ \E c \in Clients : Success(c)

SpecRace == Init /\ [][NextRace]_vars

\* ------------------------------------------------------------------ the catalog
CatalogLogins == {<<sAdmin, sAdmin123>>, <<sUser, sUser123>>}
CatalogPriceInputs ==
    {Field(<<"5">>), Field(<<"-", "5">>), Field(<<"a", "b", "c">>), Field(sEmpty), NoField}

\* the admin page with every kind of price input, next to the requests that
\* put catalog items into carts
NextCatalog ==
    \/ \E c \in Clients, l \in CatalogLogins : Login(c, l[1], l[2])
    \/ \E c \in Clients : Logout(c)
    \/ \E c \in Clients, n \in ItemNameInputs, p \in CatalogPriceInputs :
          AdminCreate(c, n, p) /\ Bounded'
    \/ \E c \in Clients, i \in ItemIds : AdminDeleteItem(c, i)
    \/ \E c \in Clients, i \in ItemIds : AddToCart(c, i) /\ Bounded'
    \/ \E c \in Clients : ViewCart(c)

SpecCatalog == Init /\ [][NextCatalog]_vars

\* ------------------------------------------------------------------ the upload
UploadFileInputs ==
    { NoField, Field(sEmpty), Field(<<".", ".">>),
      Field(<<"a", ".", "p", "n", "g">>), Field(<<"b", ".", "J", "P", "G">>),
      Field(<<"c", ".", "t", "x", "t">>), Field(<<"s", "h", "o", "t">>),
      Field(<<"/", "e", ".", "g", "i", "f", ".">>) }

\* the checkout steps with every kind of file name
NextUpload ==
    \/ \E c \in Clients, l \in CatalogLogins : Login(c, l[1], l[2])
    \/ \E c \in Clients : Logout(c)
    \/ \E c \in Clients : AddToCart(c, 1) /\ Bounded'
    \/ \E c \in Clients : Payment(c)
    \/ \E c \in Clients, f \in UploadFileInputs, ok \in BOOLEAN : SendScreenshot(c, f, ok)
    \/ \E c \in Clients : Success(c)

SpecUpload == Init /\ [][NextUpload]_vars

\* ------------------------------------------------------------------ the cart
CartItemIds == {1, 2, 5}

\* the requests that read and write cart rows, with the deletion of items
NextCart ==
    \/ \E c \in Clients, l \in CatalogLogins : Login(c, l[1], l[2])
    \/ \E c \in Clients : Logout(c)
    \/ \E c \in Clients, i \in CartItemIds : AddToCart(c, i) /\ Bounded'
    \/ \E c \in Clients, k \in CartIds, q \in QtyInputs : UpdateCart(c, k, q) /\ Bounded'
    \/ \E c \in Clients : ViewCart(c)
    \/ \E c \in Clients, i \in CartItemIds : AdminDeleteItem(c, i)

SpecCart == Init /\ [][NextCart]_vars

\* ------------------------------------------------------------------ claims
\* the session of browser c is bound to a user whose is_admin is true
IsAdminSession(c) ==
    c \in Clients /\ \E u \in users : u.id = session[c] /\ u.is_admin

RowsOf(uid) == {r \in cart : r.user_id = uid}

\* C1: with atomic requests there is at most one cart row for each
\* (user_id, item_id) pair in every reachable state.
C1_OneRowPerUserItem ==
    \A r1 \in cart, r2 \in cart :
        (r1.user_id = r2.user_id /\ r1.item_id = r2.item_id) => r1 = r2

\* a repeated add met the existing row: the user has a row of quantity 2 and a
\* row for another item
C1_Witness ==
    /\ last.op = "add_to_cart" /\ last.resp = "redirect:items"
    /\ \E r1 \in RowsOf(session[last.c]), r2 \in RowsOf(session[last.c]) :
          r1.quantity = 2 /\ r2.item_id # r1.item_id

\* C2: a cart update sent in the session of one user never changes or deletes
\* a cart row of another user.
C2_OwnerOnly ==
    [][last'.op = "update_cart" =>
          \A r \in cart : r.user_id # session[last'.c] => r \in cart']_vars

\* C3: the cart is cleared by the Completed step only after the browser has
\* acknowledged payment and then uploaded a screenshot.
C3_SinglePath ==
    [][(last'.op = "success" /\ last'.resp = "render:success") =>
          flow[last'.c] = "ScreenshotUploaded"]_vars

\* C4: every cart row references an item that exists, and the cart page of
\* every user has one line for each of the user's rows (no orphaned line).
C4_NoOrphans ==
    /\ \A r \in cart : \E i \in items : i.id = r.item_id
    /\ \A u \in users : Cardinality(CartLines(u.id)) = Cardinality(RowsOf(u.id))

\* an item was deleted while cart rows exist: the row with id 1 is gone, the
\* row with id 2 is left
C4_Witness ==
    /\ last.op = "admin_delete_item" /\ last.resp = "redirect:admin"
    /\ items # SeedItems
    /\ \E r \in cart : r.id = 2
    /\ \A r \in cart : r.id # 1

\* C5: every cart row has an integer quantity of at least 1.
C5_QuantityAtLeastOne ==
    \A r \in cart : r.quantity \in Int /\ r.quantity >= 1

\* an update with a quantity of 0 or less removed the only row
C5_Witness ==
    /\ last.op = "update_cart" /\ last.resp = "redirect:cart"
    /\ cart = {}

\* C6: the catalog changes only in an admin request of a session bound to an
\* admin; an admin request of any other session is refused and leaves items
\* and cart rows unchanged.
C6_AdminOnly ==
    [][/\ items' # items =>
             (last'.op \in {"admin", "admin_delete_item"} /\ IsAdminSession(last'.c))
       /\ (last'.op \in {"admin", "admin_delete_item"} /\ ~IsAdminSession(last'.c)) =>
             (last'.resp = "redirect:items" /\ items' = items /\ cart' = cart)]_vars

\* a logged-in user who is not an admin was refused the deletion of an item
C6_Witness ==
    /\ last.op = "admin_delete_item" /\ last.resp = "redirect:items"
    /\ session[last.c] # 0
    /\ items = SeedItems

C8_AddIncrements ==
    [][(last'.op = "add_to_cart" /\ last'.resp = "redirect:items") =>
          \E i \in items :
             LET old == {r \in cart : r.user_id = session[last'.c] /\ r.item_id = i.id}
             IN  IF old = {}
                 THEN \E r \in cart' :
                         /\ r \notin cart
                         /\ r.user_id = session[last'.c] /\ r.item_id = i.id /\ r.quantity = 1
                         /\ \A o \in cart : o.id # r.id
                         /\ cart' = cart \cup {r}
                 ELSE \E r \in old :
                         /\ old = {r}
                         /\ cart' = (cart \ {r}) \cup {[r EXCEPT !.quantity = r.quantity + 1]}]_vars

\* two adds of one item gave one row of quantity 2
C8_Witness ==
    /\ last.op = "add_to_cart" /\ last.resp = "redirect:items"
    /\ \E r \in cart : cart = {r} /\ r.quantity = 2 /\ r.user_id = session[last.c]

\* C9: a user is an admin exactly when the lower-cased identifier is "admin",
\* and no step changes or removes a user record.
C9_AdminFlag ==
    /\ [](\A u \in users : u.is_admin <=> (Lower(u.username) = sAdmin))
    /\ [][\A u \in users : u \in users']_vars

\* the signup as "Admin" made an admin
C9_Witness ==
    /\ last.op = "signup" /\ last.resp = "redirect:login"
    /\ \E u \in users : u.username = sAdminCap /\ u.is_admin

\* C10 as stated: a signup with a non-empty name that is not in the store
\* creates exactly one user.
C10_SignupCreates ==
    [][\A c \in Clients, n \in NameInputs, p \in PwdInputs :
          (n # <<>> /\ (\A u \in users : u.username # n) /\ Signup(c, n, p)) =>
             Cardinality(users') = Cardinality(users) + 1]_vars

\* C10 amended: a signup whose name and secret are non-empty once trimmed, the
\* trimmed name not in the store, adds exactly one user with that name; a
\* login with the name and secret of a stored user binds the session to that
\* user; a signup with a stored name leaves the store unchanged; no two users
\* share an identifier or an id.
C10_SignupThenLogin ==
    /\ [](\A u1 \in users, u2 \in users :
             (u1.username = u2.username \/ u1.id = u2.id) => u1 = u2)
    /\ [][\A c \in Clients, n \in NameInputs, p \in PwdInputs :
             /\ (Signup(c, n, p) /\ Strip(n) # <<>> /\ Strip(p) # <<>>
                    /\ \A u \in users : u.username # Strip(n)) =>
                   \E u \in users' :
                      /\ u \notin users /\ users' = users \cup {u}
                      /\ u.username = Strip(n)
                      /\ u.password_hash = PasswordHash(Strip(p))
             /\ (Signup(c, n, p) /\ \E u \in users : u.username = Strip(n)) =>
                   (users' = users /\ last'.resp = "redirect:signup")
             /\ Login(c, n, p) =>
                   \A u \in users :
                      (u.username = Strip(n) /\ u.password_hash = PasswordHash(Strip(p)))
                         => session'[c] = u.id]_vars

\* the user who signed up as " alice " is logged in
C10_Witness ==
    /\ last.op = "login" /\ last.resp = "redirect:items"
    /\ \E u \in users : u.id = session[last.c] /\ u.id = 3 /\ u.username = sAlice

\* C11: a cart update of an existing row with an integer quantity q removes
\* exactly that row when q <= 0 and sets exactly that row's quantity to q when
\* q > 0; after a removal the owner's cart page has no line for the row and
\* its total is smaller by the value of the row.
C11_SetQuantity ==
    [][\A c \in Clients, k \in CartIds, q \in QtyInputs :
          (last'.op = "update_cart" /\ session[c] # 0 /\ (\E row \in cart : row.id = k)
              /\ ParseQuantity(q).ok /\ UpdateCart(c, k, q)) =>
             \E row \in cart :
                /\ row.id = k
                /\ IF ParseQuantity(q).val <= 0
                   THEN /\ cart' = cart \ {row}
                        /\ \A l \in CartLines(row.user_id)' : l.cart_id # k
                        /\ \A i \in items : i.id = row.item_id =>
                              CartTotal(row.user_id)' =
                                 CartTotal(row.user_id)
                                    - i.price * (IF row.quantity < 1 THEN 1 ELSE row.quantity)
                   ELSE cart' = (cart \ {row}) \cup
                                   {[row EXCEPT !.quantity = ParseQuantity(q).val]}]_vars

\* an update removed the row with id 1 and left the row with id 2 as it was
C11_Witness ==
    /\ last.op = "update_cart" /\ last.resp = "redirect:cart"
    /\ \E r \in cart : cart = {r} /\ r.id = 2 /\ r.quantity = 1

\* C12: an admin's create-item request with an empty name fails with the
\* validation message and adds no item, whatever the price input; with a name
\* and a price input that does not parse it adds the item with price 0.
C12_CreateItem ==
    [][\A c \in Clients, n \in ItemNameInputs, p \in CatalogPriceInputs :
          (AdminCreate(c, n, p) /\ IsAdminSession(c)) =>
             /\ Strip(FormGet(n, <<>>)) = <<>> =>
                   (items' = items /\ last'.flash = "Item name is required.")
             /\ (Strip(FormGet(n, <<>>)) # <<>> /\ ~ParsePrice(p).ok) =>
                   \E i \in items' : i \notin items /\ i.price = 0 /\ items' = items \cup {i}]_vars

\* C13: every item of the catalog has a price of at least 0.
C13_NonNegativePrice ==
    \A i \in items : i.price >= 0

\* the extensions the claims count as image extensions
RecognizedImageExts == {sPng, sJpg, sJpeg, <<"g", "i", "f">>}

\* C14: the MIME type of the relayed screenshot is image/png when the sanitized
\* file name has no extension and when its extension is not an image extension.
C14_MimeDefaultsToPng ==
    (last.op = "send_screenshot" /\ last.body.kind = "mail") =>
        LET f == last.body.filename
        IN  (~HasDot(f) \/ AfterLastDot(Lower(f)) \notin RecognizedImageExts) =>
               last.body.mime = sImageSlash \o sPng

\* C15: an add-to-cart request that saw no row of its (user, item) pair when
\* it read the cart inserts a new row of quantity 1 when it commits, whatever
\* other requests have committed since; so two requests that both read before
\* either commits leave two rows for the pair.
C15_BothInsert ==
    [][\A p \in pending :
          (AddToCartCommit(p) /\ p.seen = {}) =>
             \E r \in cart' :
                /\ r \notin cart
                /\ r.user_id = p.user_id /\ r.item_id = p.item_id /\ r.quantity = 1
                /\ cart' = cart \cup {r}]_vars

\* two rows of quantity 1 for one (user, item) pair, both requests committed
C15_Witness ==
    /\ pending = {}
    /\ last.op = "add_to_cart" /\ last.resp = "redirect:items"
    /\ \E r1 \in cart, r2 \in cart :
          /\ r1.id # r2.id
          /\ r1.user_id = r2.user_id /\ r1.item_id = r2.item_id
          /\ r1.quantity = 1 /\ r2.quantity = 1

\* the value of the cart rows R: price times quantity (at least 1) of every
\* row whose item exists
RECURSIVE RowsValue(_)
RowsValue(R) ==
    IF R = {} THEN 0
    ELSE LET r == CHOOSE x \in R : TRUE
             q == IF r.quantity < 1 THEN 1 ELSE r.quantity
             v == IF \E i \in items : i.id = r.item_id
                  THEN (CHOOSE i \in items : i.id = r.item_id).price * q
                  ELSE 0
         IN  v + RowsValue(R \ {r})

\* C16: the cart page changes no state; it shows one line for each cart row of
\* the user whose item exists, with line total price * max(1, quantity), and a
\* total that is the sum of the line totals: 2598 for the item priced 1299
\* added twice and 0 for a cart without rows, as after checkout.
C16_ViewCart ==
    /\ []((last.op = "cart" /\ last.resp = "render:cart") =>
            LET u == session[last.c]
                b == last.body
            IN  /\ Cardinality(b.cart_items) =
                      Cardinality({r \in RowsOf(u) : \E i \in items : i.id = r.item_id})
                /\ \A l \in b.cart_items :
                      \E r \in RowsOf(u), i \in items :
                         /\ r.id = l.cart_id /\ i.id = r.item_id /\ l.item_id = i.id
                         /\ l.quantity = r.quantity
                         /\ l.line_total = i.price * (IF r.quantity < 1 THEN 1 ELSE r.quantity)
                /\ b.total = RowsValue(RowsOf(u))
                /\ RowsOf(u) = {} => b.total = 0
                /\ (\E r \in RowsOf(u), i \in items :
                       RowsOf(u) = {r} /\ i.id = r.item_id /\ i.price = 1299 /\ r.quantity = 2)
                      => b.total = 2598)
    /\ [][(last'.op = "cart" /\ last' # last) =>
             UNCHANGED <<users, items, cart, session, flow, pending>>]_vars

\* the cart page of a user who added the item priced 1299 twice
C16_Witness ==
    /\ last.op = "cart" /\ last.resp = "render:cart"
    /\ last.body.total = 2598
    /\ \E l \in last.body.cart_items : last.body.cart_items = {l} /\ l.quantity = 2

ProtectedOps == {"cart", "add_to_cart", "update_cart", "payment", "send_screenshot", "success"}

\* C17: a request for a login-protected operation from a browser without a
\* session is sent to the login page and changes no user, item or cart row; a
\* logout leaves the browser without a session and a failed login does not
\* give it one.
C17_LoginRequired ==
    /\ [](last.op = "logout" => session[last.c] = 0)
    /\ [][/\ (last'.op \in ProtectedOps /\ session[last'.c] = 0) =>
                /\ last'.resp = "redirect:login"
                /\ UNCHANGED <<users, items, cart, session, flow>>
          /\ (last'.op = "login" /\ last'.resp = "render:login") => session' = session]_vars

\* after a logout the completion page was refused and the cart rows are kept
C17_Witness ==
    /\ last.op = "success" /\ last.resp = "redirect:login"
    /\ session[last.c] = 0
    /\ cart # {}

\* C18: add-to-cart with an item id that is not in the catalog, a cart update
\* with an unknown row id and an item deletion with an unknown item id change
\* no user, item or cart row, and answer 404 (the update: when its quantity
\* is an integer).
C18_NotFound ==
    [][\A c \in Clients :
          /\ \A i \in CartItemIds :
                (last'.op = "add_to_cart" /\ session[c] # 0 /\ (\A it \in items : it.id # i)
                    /\ AddToCart(c, i)) =>
                   (last'.resp = "404" /\ UNCHANGED <<users, items, cart>>)
          /\ \A k \in CartIds, q \in QtyInputs :
                (last'.op = "update_cart" /\ session[c] # 0 /\ (\A r \in cart : r.id # k)
                    /\ UpdateCart(c, k, q)) =>
                   /\ UNCHANGED <<users, items, cart>>
                   /\ ParseQuantity(q).ok => last'.resp = "404"
          /\ \A i \in CartItemIds :
                (last'.op = "admin_delete_item" /\ IsAdminSession(c)
                    /\ (\A it \in items : it.id # i) /\ AdminDeleteItem(c, i)) =>
                   (last'.resp = "404" /\ UNCHANGED <<users, items, cart>>)]_vars

\* the deletion of an unknown item was answered 404 while cart rows exist
C18_Witness ==
    /\ last.op = "admin_delete_item" /\ last.resp = "404"
    /\ cart # {}
=============================================================================
